---- MODULE Spec2Model ----
(***************************************************************************)
(* Model of mcp-browser-tabs (src/src/index.ts, v2.0.0): an MCP server     *)
(* whose tools/call handler drives Google Chrome through osascript.        *)
(*                                                                         *)
(* The browser is the only long-lived state.  It is a sequence of windows  *)
(* (position 1 is the front window), each with an id, an ordered sequence  *)
(* of tab ids and an active tab index.  The user may change it at any time.*)
(* Every request is one run of the async handler: it is dispatched, spawns *)
(* one osascript process, and continues when that process ends.            *)
(***************************************************************************)
EXTENDS Integers, Sequences, FiniteSets, TLC

\* ---------------------------------------------------------------- bounds
MaxId == 4        \* ids (tabs and windows share Chrome's id space) are 1..MaxId
MaxReq == 2       \* request slots: requests that may be in flight together
MaxLines == 3     \* lines of a hand-made bridge output (ParseSpec)
MaxIdx == 2       \* close_tab is asked for positions up to MaxIdx

VARIABLES
  windows,      \* the browser: Seq of [id, tabs, active]; index 1 is the front window
  nextId,       \* the next id Chrome hands out (ids are never reused)
  pc,           \* per request slot: "idle", "running" (osascript spawned, awaited),
                \*   "front" (the activate script is between its two set statements)
  req,          \* per request slot: the request (name, arguments)
  bridgeCalls,  \* per request slot: osascript processes spawned by this request
  scriptW,      \* per request slot: the window the activate script holds in w,
                \*   and whether the browser was left alone since it set the active tab
  out,          \* the response the handler returns in this step (NoResponse otherwise)
  rawOut        \* ParseSpec: the text a bridge run wrote to stdout

vars == <<windows, nextId, pc, req, bridgeCalls, scriptW, out, rawOut>>

Reqs == 1..MaxReq

\* ------------------------------------------------------------------ text
\* Text is a sequence of characters; the delimiter and the newline are one
\* token each.
Delim == "|||"
NL == "\n"

Digits == <<"0", "1", "2", "3", "4", "5", "6", "7", "8", "9">>

IsDigit(c) == \E d \in 1..10 : Digits[d] = c

DigitVal(c) == (CHOOSE d \in 1..10 : Digits[d] = c) - 1

\* An integer as AppleScript's "&" and a JS template literal print it.
RECURSIVE RenderNat(_)
RenderNat(n) ==
  IF n < 10 THEN <<Digits[n + 1]>>
  ELSE RenderNat(n \div 10) \o <<Digits[(n % 10) + 1]>>

RenderInt(n) == IF n < 0 THEN <<"-">> \o RenderNat(0 - n) ELSE RenderNat(n)

RenderBool(b) == IF b THEN <<"t", "r", "u", "e">> ELSE <<"f", "a", "l", "s", "e">>

\* Number.parseInt(s, 10): an optional sign, then the leading digits; NaN
\* when there are none (also for a missing field, which prints "undefined").
NaN == 0 - 1000

RECURSIVE DigitsPrefix(_, _)
DigitsPrefix(s, acc) ==
  IF s # <<>> /\ IsDigit(Head(s))
  THEN DigitsPrefix(Tail(s), acc * 10 + DigitVal(Head(s)))
  ELSE acc

parseInt(s) ==
  LET neg == s # <<>> /\ Head(s) = "-"
      body == IF neg THEN Tail(s) ELSE s
  IN IF body = <<>> \/ ~IsDigit(Head(body)) THEN NaN
     ELSE IF neg THEN 0 - DigitsPrefix(body, 0) ELSE DigitsPrefix(body, 0)

\* String.prototype.split(sep): the pieces between the separators.
RECURSIVE SplitAcc(_, _, _, _)
SplitAcc(s, sep, cur, acc) ==
  IF s = <<>> THEN Append(acc, cur)
  ELSE IF Head(s) = sep THEN SplitAcc(Tail(s), sep, <<>>, Append(acc, cur))
  ELSE SplitAcc(Tail(s), sep, Append(cur, Head(s)), acc)

split(s, sep) == SplitAcc(s, sep, <<>>, <<>>)

\* String.prototype.trim(): leading and trailing white space removed.
RECURSIVE TrimLeft(_)
TrimLeft(s) == IF s # <<>> /\ Head(s) \in {NL, " "} THEN TrimLeft(Tail(s)) ELSE s

RECURSIVE TrimRight(_)
TrimRight(s) ==
  IF s # <<>> /\ s[Len(s)] \in {NL, " "} THEN TrimRight(SubSeq(s, 1, Len(s) - 1)) ELSE s

trim(s) == TrimRight(TrimLeft(s))

RECURSIVE Concat(_)
Concat(ss) == IF ss = <<>> THEN <<>> ELSE Head(ss) \o Concat(Tail(ss))

\* --------------------------------------------------------------- browser
RECURSIVE SeqToSet(_)
SeqToSet(s) == IF s = <<>> THEN {} ELSE {Head(s)} \cup SeqToSet(Tail(s))

RemoveAt(s, i) == SubSeq(s, 1, i - 1) \o SubSeq(s, i + 1, Len(s))

InsertAt(s, i, x) == SubSeq(s, 1, i - 1) \o <<x>> \o SubSeq(s, i, Len(s))

AllTabs(wins) == UNION {SeqToSet(wins[w].tabs) : w \in 1..Len(wins)}

WindowIds(wins) == {wins[w].id : w \in 1..Len(wins)}

\* Position of the window holding tab t (0 when no window holds it).
WindowOf(wins, t) ==
  IF t \in AllTabs(wins)
  THEN CHOOSE w \in 1..Len(wins) : t \in SeqToSet(wins[w].tabs)
  ELSE 0

IndexIn(s, x) == IF x \in SeqToSet(s) THEN CHOOSE i \in 1..Len(s) : s[i] = x ELSE 0

ActiveTab(win) == win.tabs[win.active]

\* Page titles and URLs as the pages set them (the title may be empty).
TitleOf(t) == IF t % 2 = 0 THEN <<>> ELSE <<"H">>
UrlOf(t) == <<"u">> \o RenderNat(t)

\* Chrome removing the tab at position i of window w.  A window left without
\* tabs closes.  Closing the active tab makes some remaining tab active
\* (which one is Chrome's choice); otherwise the active tab stays the same tab.
\* The set of browser states that may result.
RemoveTab(wins, w, i) ==
  LET win == wins[w]
      rest == RemoveAt(win.tabs, i)
  IN IF rest = <<>> THEN {RemoveAt(wins, w)}
     ELSE {[wins EXCEPT ![w] = [id |-> win.id, tabs |-> rest, active |-> a]] :
             a \in IF i = win.active THEN 1..Len(rest)
                   ELSE IF i < win.active THEN {win.active - 1}
                   ELSE {win.active}}

BringToFront(wins, w) == <<wins[w]>> \o RemoveAt(wins, w)

\* ------------------------------------------------- the enumerate script
\* The text the enumerate script returns for a browser state: one line per
\* tab, windows front to back, tabs in positional order.
\* A variant used to probe the claims: the two positions printed 0-based.
TabLineZeroBased(wins, w, i) ==
  LET win == wins[w]
      t == win.tabs[i]
  IN RenderNat(win.id) \o <<Delim>> \o RenderNat(w - 1) \o <<Delim>> \o
     RenderNat(t) \o <<Delim>> \o RenderNat(i - 1) \o <<Delim>> \o
     RenderBool(i = win.active) \o <<Delim>> \o
     TitleOf(t) \o <<Delim>> \o UrlOf(t) \o <<NL>>

TabLine(wins, w, i) ==
  LET win == wins[w]
      t == win.tabs[i]
  IN RenderNat(win.id) \o <<Delim>> \o RenderNat(w) \o <<Delim>> \o
     RenderNat(t) \o <<Delim>> \o RenderNat(i) \o <<Delim>> \o
     RenderBool(i = win.active) \o <<Delim>> \o
     TitleOf(t) \o <<Delim>> \o UrlOf(t) \o <<NL>>

WindowLines(wins, w) ==
  Concat([i \in 1..Len(wins[w].tabs) |-> TabLine(wins, w, i)])

EnumerateOutput(wins) == Concat([w \in 1..Len(wins) |-> WindowLines(wins, w)])

\* ------------------------------------------------------------ the parser
\* One line of the output to a tabData object.  A field the line does not
\* have is undefined: parseInt gives NaN, === "true" is false, || "" is "".
NumField(fs, k) == IF k > Len(fs) THEN NaN ELSE parseInt(fs[k])

StrField(fs, k) == IF k > Len(fs) THEN <<>> ELSE fs[k]

ParseLine(line) ==
  LET fs == split(line, Delim)
  IN [windowId |-> NumField(fs, 1),
      windowIndex |-> NumField(fs, 2),
      tabId |-> NumField(fs, 3),
      tabIndex |-> NumField(fs, 4),
      isActive |-> (Len(fs) >= 5 /\ fs[5] = <<"t", "r", "u", "e">>),
      title |-> StrField(fs, 6),
      url |-> StrField(fs, 7)]

NonBlank(lines) == SelectSeq(lines, LAMBDA l : Len(l) > 0)

TabsData(stdout) ==
  LET lines == NonBlank(split(trim(stdout), NL))
  IN [k \in 1..Len(lines) |-> ParseLine(lines[k])]

ToChromeTab(td) ==
  [id |-> td.tabId, windowId |-> td.windowId, title |-> td.title, url |-> td.url,
   isActive |-> td.isActive, windowIndex |-> td.windowIndex, tabIndex |-> td.tabIndex]

\* A variant used to probe the claims: windowMap.has never finds the key, so
\* every line opens a window of its own.
RECURSIVE GroupAlwaysNew(_, _)
GroupAlwaysNew(tds, acc) ==
  IF tds = <<>> THEN acc
  ELSE GroupAlwaysNew(Tail(tds),
         Append(acc, [windowId |-> Head(tds).windowId,
                      windowIndex |-> Head(tds).windowIndex,
                      tabs |-> <<ToChromeTab(Head(tds))>>]))

\* A variant used to probe the claims: a window seen for the first time
\* goes to the head of the list.
RECURSIVE GroupPrepends(_, _)
GroupPrepends(tds, acc) ==
  IF tds = <<>> THEN acc
  ELSE LET td == Head(tds)
           at == IF \E k \in 1..Len(acc) : acc[k].windowId = td.windowId
                 THEN CHOOSE k \in 1..Len(acc) : acc[k].windowId = td.windowId
                 ELSE 0
       IN IF at = 0
          THEN GroupPrepends(Tail(tds),
                 <<[windowId |-> td.windowId, windowIndex |-> td.windowIndex,
                    tabs |-> <<ToChromeTab(td)>>]>> \o acc)
          ELSE GroupPrepends(Tail(tds),
                 [acc EXCEPT ![at].tabs = Append(@, ToChromeTab(td))])

\* The windowMap loop: a window per windowId in first-seen order, its tabs
\* in the order of their lines.
RECURSIVE GroupByWindow(_, _)
GroupByWindow(tds, acc) ==
  IF tds = <<>> THEN acc
  ELSE LET td == Head(tds)
           at == IF \E k \in 1..Len(acc) : acc[k].windowId = td.windowId
                 THEN CHOOSE k \in 1..Len(acc) : acc[k].windowId = td.windowId
                 ELSE 0
       IN IF at = 0
          THEN GroupByWindow(Tail(tds),
                 Append(acc, [windowId |-> td.windowId, windowIndex |-> td.windowIndex,
                              tabs |-> <<ToChromeTab(td)>>]))
          ELSE GroupByWindow(Tail(tds),
                 [acc EXCEPT ![at].tabs = Append(@, ToChromeTab(td))])

\* getChromeTabsWithIds, after the await: stdout to ChromeWindow[].
ParseOutput(stdout) == GroupByWindow(TabsData(stdout), <<>>)

\* getChromeTabsWithIds on a browser state: enumerate, then parse.
getChromeTabsWithIds(wins) == ParseOutput(EnumerateOutput(wins))

\* ----------------------------------------------- the mutation scripts
\* A tool argument as the client sends it: an integer, some other JSON
\* value (a string, a fraction), or a key that is not there.
IntArg(n) == [kind |-> "int", val |-> n]
StrArg == [kind |-> "str", val |-> 0]
Missing == [kind |-> "missing", val |-> 0]

\* `${tabId}`: the argument as the template literal prints it.
ArgText(a) ==
  IF a.kind = "int" THEN RenderInt(a.val)
  ELSE IF a.kind = "str" THEN <<"x">>
  ELSE <<"u", "n", "d", "e", "f", "i", "n", "e", "d">>

\* (id of t) as string = targetTabID, over every tab of every window: the
\* tab whose id prints as the target text (0 when there is none).
FindTab(wins, text) ==
  IF \E t \in AllTabs(wins) : RenderNat(t) = text
  THEN CHOOSE t \in AllTabs(wins) : RenderNat(t) = text
  ELSE 0

\* close-by-id variants used to probe the claims: the tab's index applied to
\* the front window; a script that does not raise when it finds nothing.
CloseByIdFrontWindow(wins, a) ==
  LET t == FindTab(wins, ArgText(a))
      w == WindowOf(wins, t)
      i == IF t = 0 THEN 0 ELSE IndexIn(wins[w].tabs, t)
  IN IF t = 0 THEN {}
     ELSE IF i <= Len(wins[1].tabs) THEN RemoveTab(wins, 1, i)
     ELSE {wins}

CloseByIdSilent(wins, a) ==
  LET t == FindTab(wins, ArgText(a))
      w == WindowOf(wins, t)
  IN IF t = 0 THEN {wins} ELSE RemoveTab(wins, w, IndexIn(wins[w].tabs, t))

\* A variant used to probe the claims: a script that closes the front
\* window's first tab when its search finds nothing.
CloseByIdFallsBack(wins, a) ==
  LET t == FindTab(wins, ArgText(a))
      w == WindowOf(wins, t)
  IN IF t = 0 THEN (IF wins = <<>> THEN {} ELSE RemoveTab(wins, 1, 1))
     ELSE RemoveTab(wins, w, IndexIn(wins[w].tabs, t))

\* The close-by-id script: the browser states it may leave (none: not found,
\* the script raises an error and osascript exits non-zero).
CloseByIdScript(wins, a) ==
  LET t == FindTab(wins, ArgText(a))
      w == WindowOf(wins, t)
  IN IF t = 0 THEN {} ELSE RemoveTab(wins, w, IndexIn(wins[w].tabs, t))

\* An activate-by-id variant used to probe the claims: a 0-based index
\* handed to the 1-based active tab index.
SetActiveOffByOne(wins, a) ==
  LET t == FindTab(wins, ArgText(a))
      w == WindowOf(wins, t)
      i == IF t = 0 THEN 0 ELSE IndexIn(wins[w].tabs, t)
  IN IF t = 0 THEN {}
     ELSE {[wins EXCEPT ![w].active = IF i > 1 THEN i - 1 ELSE i]}

\* A variant used to probe the claims: the tab is moved to the head of its
\* window and selected there.
SetActiveMovesTab(wins, a) ==
  LET t == FindTab(wins, ArgText(a))
      w == WindowOf(wins, t)
  IN IF t = 0 THEN {}
     ELSE {[wins EXCEPT ![w] =
              [id |-> @.id,
               tabs |-> <<t>> \o SelectSeq(@.tabs, LAMBDA x : x # t),
               active |-> 1]]}

\* The activate-by-id script up to "set (active tab index of w) to i".
SetActiveScript(wins, a) ==
  LET t == FindTab(wins, ArgText(a))
      w == WindowOf(wins, t)
  IN IF t = 0 THEN {}
     ELSE {[wins EXCEPT ![w].active = IndexIn(wins[w].tabs, t)]}

\* A variant used to probe the claims: the window is not raised.
SetIndexSkipped(wins, wid) == IF wid \in WindowIds(wins) THEN {wins} ELSE {}

\* "set index of w to 1" for the window the script holds (by id).
SetIndexScript(wins, wid) ==
  IF wid \in WindowIds(wins)
  THEN {BringToFront(wins, CHOOSE w \in 1..Len(wins) : wins[w].id = wid)}
  ELSE {}

\* A variant used to probe the claims: positions taken as 0-based.
IndexRefZeroBased(a, len) ==
  IF a.kind = "int" /\ a.val >= 0 /\ a.val < len THEN a.val + 1 ELSE 0

\* "window n" / "tab n": the n-th element, 1-based.  Anything else (0, out
\* of range, text that is no integer) designates nothing and raises an error.
IndexRef(a, len) ==
  IF a.kind = "int" /\ a.val >= 1 /\ a.val <= len THEN a.val ELSE 0

\* A variant used to probe the claims: "tab i of front window", the window
\* index checked but not used.
CloseByIndexFrontOnly(wins, wa, ta) ==
  LET w == IndexRef(wa, Len(wins))
      i == IF w = 0 THEN 0 ELSE IndexRef(ta, Len(wins[1].tabs))
  IN IF w = 0 \/ i = 0 THEN {wins} ELSE RemoveTab(wins, 1, i)

\* The close-by-position script: the browser states it may leave.  An error
\* inside its try block is returned as text ("Error: ..."), osascript exits
\* zero and the browser is as before.
CloseByIndexScript(wins, wa, ta) ==
  LET w == IndexRef(wa, Len(wins))
      i == IF w = 0 THEN 0 ELSE IndexRef(ta, Len(wins[w].tabs))
  IN IF w = 0 \/ i = 0 THEN {wins} ELSE RemoveTab(wins, w, i)

\* Whether the close-by-position script closed a tab.
CloseByIndexHits(wins, wa, ta) ==
  LET w == IndexRef(wa, Len(wins))
  IN w # 0 /\ IndexRef(ta, Len(wins[w].tabs)) # 0

\* ------------------------------------------------------------- requests
ToolNames == {"get_tabs", "close_tab_by_id", "activate_tab_by_id", "close_tab"}

ByIdNames == {"close_tab_by_id", "activate_tab_by_id"}

TabIdArgs == {IntArg(n) : n \in 0..MaxId} \cup {StrArg, Missing}

IdxArgs == {IntArg(n) : n \in 0..MaxIdx} \cup {StrArg}

Request(name, hasArgs, a1, a2) ==
  [name |-> name, hasArgs |-> hasArgs, a1 |-> a1, a2 |-> a2]

\* The tools/call requests a client may send: params.name any string,
\* params.arguments optional, its values unchecked by the server.
Requests ==
  {Request(n, FALSE, Missing, Missing) : n \in ToolNames \cup {"no_such_tool"}}
  \cup {Request("no_such_tool", TRUE, Missing, Missing)}
  \cup {Request(n, TRUE, a, Missing) : n \in ByIdNames, a \in TabIdArgs}
  \cup {Request("close_tab", TRUE, wa, ta) : wa \in IdxArgs, ta \in IdxArgs}

NoRequest == Request("", FALSE, Missing, Missing)

NoWindow == [wid |-> 0, clean |-> TRUE]

\* What the handler hands back: kind "result" is a returned object (with or
\* without isError), kind "exception" a rejection that left the handler
\* (kind "none": no handler returned in this step).
\* calls, closed and clean record the run: the osascript processes it spawned,
\* the tabs that left the browser in its last step, and (activation) whether
\* the browser was left alone between its two set statements.
Response(rq, kind, isError, text, detail, snap, calls, closed, clean) ==
  [name |-> rq.name, a1 |-> rq.a1, a2 |-> rq.a2, kind |-> kind,
   isError |-> isError, text |-> text, detail |-> detail, snap |-> snap,
   calls |-> calls, closed |-> closed, clean |-> clean]

NoResponse == Response(NoRequest, "none", FALSE, "", "", <<>>, 0, {}, TRUE)

\* return { content: [...] } of a tool's branch.
Success(rq, text, snap, calls, closed, clean) ==
  Response(rq, "result", FALSE, text, "", snap, calls, closed, clean)

\* A variant used to probe the claims: the error leaves the handler.
Rethrown(rq, text, detail, calls, closed, clean) ==
  Response(rq, "exception", TRUE, text, detail, <<>>, calls, closed, clean)

\* The handler's catch block: every error becomes { content, isError: true }
\* with the error's message (text: the thrower's prefix, detail: the cause).
Caught(rq, text, detail, calls, closed, clean) ==
  Response(rq, "result", TRUE, text, detail, <<>>, calls, closed, clean)

\* The message of the Error the tool's function throws when execAsync rejects.
FailureText(name) ==
  IF name = "get_tabs" THEN "Failed to get Chrome tabs"
  ELSE IF name = "close_tab_by_id" THEN "Failed to close Chrome tab with ID"
  ELSE IF name = "activate_tab_by_id" THEN "Failed to activate Chrome tab with ID"
  ELSE "Failed to close Chrome tab"

\* The handler up to its first await.  A known tool reads its arguments
\* (destructuring an absent arguments object throws a TypeError), builds
\* its script and spawns osascript; any other name throws "Unknown tool".
Spawns(rq) ==
  /\ rq.name \in ToolNames
  /\ rq.name = "get_tabs" \/ rq.hasArgs

\* A step in which this request's script may have changed the browser: the
\* activations of the other requests are no longer undisturbed.
Disturb(sw, r, changed) ==
  [q \in Reqs |-> IF q # r /\ changed THEN [sw[q] EXCEPT !.clean = FALSE] ELSE sw[q]]

Finish(r) ==
  /\ pc' = [pc EXCEPT ![r] = "idle"]
  /\ req' = [req EXCEPT ![r] = NoRequest]
  /\ bridgeCalls' = [bridgeCalls EXCEPT ![r] = 0]

Dispatch(r, from) ==
  /\ pc[r] = "idle"
  /\ \E rq \in from :
       IF Spawns(rq)
       THEN /\ pc' = [pc EXCEPT ![r] = "running"]
            /\ req' = [req EXCEPT ![r] = rq]
            /\ bridgeCalls' = [bridgeCalls EXCEPT ![r] = 1]
            /\ out' = NoResponse
       ELSE /\ out' = Caught(rq,
                        IF rq.name \in ToolNames THEN "TypeError" ELSE "Unknown tool",
                        "", 0, {}, TRUE)
            /\ UNCHANGED <<pc, req, bridgeCalls>>
  /\ UNCHANGED <<windows, nextId, scriptW, rawOut>>

\* A variant used to probe the claims: a catch block that runs the script
\* once more before it gives up.
BridgeFailsRetries(r) ==
  /\ pc[r] = "running"
  /\ IF bridgeCalls[r] < 2
     THEN /\ bridgeCalls' = [bridgeCalls EXCEPT ![r] = @ + 1]
          /\ out' = NoResponse
          /\ UNCHANGED <<pc, req>>
     ELSE /\ out' = Caught(req[r], FailureText(req[r].name), "bridge",
                           bridgeCalls[r], {}, TRUE)
          /\ Finish(r)
  /\ UNCHANGED <<windows, nextId, scriptW, rawOut>>

\* osascript exits non-zero before its script touched the browser (Chrome
\* not scriptable, permission denied): execAsync rejects, the tool's function
\* throws, the handler catches.
BridgeFails(r) ==
  /\ pc[r] = "running"
  /\ out' = Caught(req[r], FailureText(req[r].name), "bridge", bridgeCalls[r], {}, TRUE)
  /\ Finish(r)
  /\ UNCHANGED <<windows, nextId, scriptW, rawOut>>

\* A variant used to probe the claims: an enumerate script that selects
\* each tab as it visits it, leaving every window on its last tab.
GetTabsSelectsTabs(r, stdout) ==
  /\ pc[r] = "running"
  /\ req[r].name = "get_tabs"
  /\ out' = Success(req[r], "Found open tabs in Chrome", ParseOutput(stdout),
                    bridgeCalls[r], {}, TRUE)
  /\ Finish(r)
  /\ windows' = [w \in 1..Len(windows) |->
                  [windows[w] EXCEPT !.active = Len(windows[w].tabs)]]
  /\ UNCHANGED <<nextId, scriptW, rawOut>>

\* getChromeTabsWithIds and the get_tabs branch: the enumerate script runs,
\* its output is parsed and grouped, the listing is returned.
GetTabsWith(r, stdout) ==
  /\ pc[r] = "running"
  /\ req[r].name = "get_tabs"
  /\ out' = Success(req[r], "Found open tabs in Chrome", ParseOutput(stdout),
                    bridgeCalls[r], {}, TRUE)
  /\ Finish(r)
  /\ UNCHANGED <<windows, nextId, scriptW, rawOut>>

\* A variant used to probe the claims: the listing of the browser as it was
\* when the server started, kept and served again.
GetTabsCached(r) ==
  GetTabsWith(r, EnumerateOutput(<<[id |-> 1, tabs |-> <<2, 3>>, active |-> 1]>>))

GetTabsReturns(r) == GetTabsWith(r, EnumerateOutput(windows))

\* closeChromeTabById and the close_tab_by_id branch.
closeChromeTabById(r) ==
  /\ pc[r] = "running"
  /\ req[r].name = "close_tab_by_id"
  /\ LET after == CloseByIdScript(windows, req[r].a1)
     IN IF after = {}
        THEN /\ out' = Caught(req[r], FailureText(req[r].name), "not found",
                              bridgeCalls[r], {}, TRUE)
             /\ UNCHANGED <<windows, scriptW>>
        ELSE /\ windows' \in after
             /\ out' = Success(req[r], "Successfully closed tab with ID", <<>>,
                               bridgeCalls[r], AllTabs(windows) \ AllTabs(windows'), TRUE)
             /\ scriptW' = Disturb(scriptW, r, TRUE)
  /\ Finish(r)
  /\ UNCHANGED <<nextId, rawOut>>

\* activateChromeTabById, first half: the script finds the tab and sets its
\* window's active tab index; when it finds none it raises its error.
ActivateSetsActive(r) ==
  /\ pc[r] = "running"
  /\ req[r].name = "activate_tab_by_id"
  /\ LET after == SetActiveScript(windows, req[r].a1)
         t == FindTab(windows, ArgText(req[r].a1))
     IN IF after = {}
        THEN /\ out' = Caught(req[r], FailureText(req[r].name), "not found",
                              bridgeCalls[r], {}, TRUE)
             /\ Finish(r)
             /\ UNCHANGED <<windows, scriptW>>
        ELSE /\ windows' \in after
             /\ pc' = [pc EXCEPT ![r] = "front"]
             /\ scriptW' = [Disturb(scriptW, r, windows' # windows) EXCEPT
                              ![r] = [wid |-> windows[WindowOf(windows, t)].id,
                                      clean |-> TRUE]]
             /\ out' = NoResponse
             /\ UNCHANGED <<req, bridgeCalls>>
  /\ UNCHANGED <<nextId, rawOut>>

\* activateChromeTabById, second half: "set index of w to 1" in the same
\* script, then the activate_tab_by_id branch returns.  A window that has
\* closed since makes the statement fail.
ActivateSetsIndex(r) ==
  /\ pc[r] = "front"
  /\ LET after == SetIndexScript(windows, scriptW[r].wid)
     IN IF after = {}
        THEN /\ out' = Caught(req[r], FailureText(req[r].name), "no such window",
                              bridgeCalls[r], {}, scriptW[r].clean)
             /\ scriptW' = [scriptW EXCEPT ![r] = NoWindow]
             /\ UNCHANGED windows
        ELSE /\ windows' \in after
             /\ out' = Success(req[r], "Successfully activated tab with ID", <<>>,
                               bridgeCalls[r], {}, scriptW[r].clean)
             /\ scriptW' = [Disturb(scriptW, r, windows' # windows) EXCEPT ![r] = NoWindow]
  /\ Finish(r)
  /\ UNCHANGED <<nextId, rawOut>>

\* closeChromeTabByIndex and the close_tab branch: the script's own try
\* block swallows "no such window/tab", so execAsync resolves either way.
closeChromeTabByIndex(r) ==
  /\ pc[r] = "running"
  /\ req[r].name = "close_tab"
  /\ windows' \in CloseByIndexScript(windows, req[r].a1, req[r].a2)
  /\ out' = Success(req[r], "LEGACY: Successfully closed tab at window", <<>>,
                    bridgeCalls[r], AllTabs(windows) \ AllTabs(windows'), TRUE)
  /\ scriptW' = Disturb(scriptW, r, windows' # windows)
  /\ Finish(r)
  /\ UNCHANGED <<nextId, rawOut>>

\* ---------------------------------------------------------------- the user
UserStep ==
  /\ out' = NoResponse
  /\ scriptW' = Disturb(scriptW, 0, TRUE)
  /\ UNCHANGED <<pc, req, bridgeCalls, rawOut>>

UserOpensTab ==
  /\ nextId <= MaxId
  /\ \E w \in 1..Len(windows) :
       windows' = [windows EXCEPT ![w] = [id |-> @.id, tabs |-> Append(@.tabs, nextId),
                                           active |-> Len(@.tabs) + 1]]
  /\ nextId' = nextId + 1
  /\ UserStep

UserClosesTab ==
  /\ \E w \in 1..Len(windows) : \E i \in 1..Len(windows[w].tabs) :
       windows' \in RemoveTab(windows, w, i)
  /\ UNCHANGED nextId
  /\ UserStep

\* A tab dragged to position j of the window with id wid (its own or another
\* one); the dragged tab is the active tab where it lands.
Drop(wins, t, wid, j) ==
  LET d == CHOOSE k \in 1..Len(wins) : wins[k].id = wid
  IN [wins EXCEPT ![d] = [id |-> wid, tabs |-> InsertAt(@.tabs, j, t), active |-> j]]

UserMovesTab ==
  /\ \E w \in 1..Len(windows) : \E i \in 1..Len(windows[w].tabs) :
     \E d \in 1..Len(windows) :
       LET t == windows[w].tabs[i]
           wid == windows[d].id
       IN /\ d # w \/ Len(windows[w].tabs) > 1
          /\ \E mid \in RemoveTab(windows, w, i) :
             \E j \in 1..(Len(windows[d].tabs) + (IF d = w THEN 0 ELSE 1)) :
               /\ d = w => j # i
               /\ windows' = Drop(mid, t, wid, j)
  /\ UNCHANGED nextId
  /\ UserStep

\* A tab dragged out of its window: a new window, in front, holding it.
UserDetachesTab ==
  /\ nextId <= MaxId
  /\ \E w \in 1..Len(windows) : \E i \in 1..Len(windows[w].tabs) :
       /\ Len(windows[w].tabs) > 1
       /\ \E mid \in RemoveTab(windows, w, i) :
            windows' = <<[id |-> nextId, tabs |-> <<windows[w].tabs[i]>>, active |-> 1]>>
                       \o mid
  /\ nextId' = nextId + 1
  /\ UserStep

UserSelectsTab ==
  /\ \E w \in 1..Len(windows) : \E i \in 1..Len(windows[w].tabs) :
       /\ i # windows[w].active
       /\ windows' = [windows EXCEPT ![w].active = i]
  /\ UNCHANGED nextId
  /\ UserStep

UserFocusesWindow ==
  /\ \E w \in 2..Len(windows) : windows' = BringToFront(windows, w)
  /\ UNCHANGED nextId
  /\ UserStep

\* --------------------------------------------------------- specification
Init ==
  /\ windows = <<[id |-> 1, tabs |-> <<2, 3>>, active |-> 1]>>
  /\ nextId = 4
  /\ pc = [r \in Reqs |-> "idle"]
  /\ req = [r \in Reqs |-> NoRequest]
  /\ bridgeCalls = [r \in Reqs |-> 0]
  /\ scriptW = [r \in Reqs |-> NoWindow]
  /\ out = NoResponse
  /\ rawOut = <<>>

UserNext ==
  \/ UserOpensTab
  \/ UserClosesTab
  \/ UserMovesTab
  \/ UserDetachesTab
  \/ UserSelectsTab
  \/ UserFocusesWindow

\* One request in flight at a time, any request; the user acts at any moment.
\* Whatever another request's script could do to the browser meanwhile
\* (close a tab, select a tab, raise a window) the user's steps do too.
Next ==
  \/ Dispatch(1, Requests)
  \/ BridgeFails(1)
  \/ GetTabsReturns(1)
  \/ closeChromeTabById(1)
  \/ ActivateSetsActive(1)
  \/ ActivateSetsIndex(1)
  \/ closeChromeTabByIndex(1)
  \/ UserNext

Spec == Init /\ [][Next]_vars

\* Requests arriving together: the protocol layer starts the async handler
\* of each request as it arrives and awaits none, so up to MaxReq handlers
\* are between dispatch and return at once.
ConcRequests ==
  {Request("get_tabs", FALSE, Missing, Missing),
   Request("close_tab_by_id", TRUE, IntArg(3), Missing),
   Request("activate_tab_by_id", TRUE, IntArg(3), Missing),
   Request("close_tab", TRUE, IntArg(1), IntArg(1)),
   Request("no_such_tool", FALSE, Missing, Missing)}

ConcNext ==
  \/ \E r \in Reqs : Dispatch(r, ConcRequests)
  \/ \E r \in Reqs : BridgeFails(r)
  \/ \E r \in Reqs : GetTabsReturns(r)
  \/ \E r \in Reqs : closeChromeTabById(r)
  \/ \E r \in Reqs : ActivateSetsActive(r)
  \/ \E r \in Reqs : ActivateSetsIndex(r)
  \/ \E r \in Reqs : closeChromeTabByIndex(r)
  \/ UserNext

ConcSpec == Init /\ [][ConcNext]_vars

\* ------------------------------------------------- the parser on its own
\* The parser given any text a bridge run may have written: records of
\* several windows in any order, empty fields, fields that are no numbers,
\* records cut short, blank lines.
NumFields == 7

SampleRecords ==
  {<<wid, wid, tid, <<"1">>, RenderBool(TRUE), <<"H">>, <<"u">>>> :
     wid \in {<<"1">>, <<"2">>}, tid \in {<<"5">>, <<"6">>}}
  \cup {<<<<"1">>, <<"1">>, <<"5">>, <<"2">>, RenderBool(FALSE), <<>>, <<"u">>>>,
        <<<<"x">>, <<"1">>, <<"5">>, <<"1">>, RenderBool(TRUE), <<"H">>, <<"u">>>>,
        <<<<"1">>, <<"1">>, <<"5", "x">>, <<"1">>, RenderBool(TRUE), <<"H">>, <<"u">>>>}

\* The record whose prefixes stand for lines cut short.
SampleCut == <<<<"1">>, <<"1">>, <<"5">>, <<"1">>, RenderBool(TRUE), <<"H">>, <<"u">>>>

RECURSIVE JoinFields(_)
JoinFields(fs) ==
  IF fs = <<>> THEN <<>>
  ELSE IF Len(fs) = 1 THEN fs[1]
  ELSE fs[1] \o <<Delim>> \o JoinFields(Tail(fs))

SampleLines ==
  {JoinFields(f) : f \in SampleRecords}
  \cup {JoinFields(SubSeq(SampleCut, 1, k)) : k \in 0..(NumFields - 1)}

\* The outputs of up to max lines, each line ended by a newline.
SampleOutputs(max) ==
  UNION {{Concat([k \in 1..n |-> ls[k] \o <<NL>>]) : ls \in [1..n -> SampleLines]} :
         n \in 1..max}

ParseInit ==
  /\ windows = <<>>
  /\ nextId = 1
  /\ pc = [r \in Reqs |-> IF r = 1 THEN "running" ELSE "idle"]
  /\ req = [r \in Reqs |-> IF r = 1 THEN Request("get_tabs", FALSE, Missing, Missing)
                           ELSE NoRequest]
  /\ bridgeCalls = [r \in Reqs |-> IF r = 1 THEN 1 ELSE 0]
  /\ scriptW = [r \in Reqs |-> NoWindow]
  /\ out = NoResponse
  /\ rawOut \in SampleOutputs(MaxLines)

\* get_tabs continuing after the await with the given stdout.
GetTabsGiven == GetTabsWith(1, rawOut)

ParseSpec == ParseInit /\ [][GetTabsGiven]_vars

TypeOK ==
  /\ nextId \in 1..(MaxId + 1)
  /\ \A w \in 1..Len(windows) :
       /\ windows[w].tabs # <<>>
       /\ windows[w].active \in 1..Len(windows[w].tabs)
  /\ pc \in [Reqs -> {"idle", "running", "front"}]

\* ================================================================ claims
PositiveInt(a) == a.kind = "int" /\ a.val >= 1

\* The windows' tab sequences with tab t taken out (emptied windows dropped).
RECURSIVE LayoutWithout(_, _)
LayoutWithout(wins, t) ==
  IF wins = <<>> THEN <<>>
  ELSE LET rest == SelectSeq(Head(wins).tabs, LAMBDA x : x # t)
       IN (IF rest = <<>> THEN <<>> ELSE <<[id |-> Head(wins).id, tabs |-> rest]>>)
          \o LayoutWithout(Tail(wins), t)

\* C1: when close_tab_by_id(X) runs its script while X is open (wherever X
\* sits by then), the request succeeds and the browser loses exactly tab X:
\* every other tab stays in its window, in its order.
C1_ClosesExactlyTarget ==
  [][\A r \in Reqs :
       (/\ pc[r] = "running"
        /\ req[r].name = "close_tab_by_id"
        /\ req[r].a1.kind = "int"
        /\ req[r].a1.val \in AllTabs(windows)
        /\ pc'[r] = "idle"
        /\ out'.detail # "bridge")
       => /\ ~out'.isError
          /\ out'.closed = {req[r].a1.val}
          /\ AllTabs(windows') = AllTabs(windows) \ {req[r].a1.val}
          /\ LayoutWithout(windows', 0) = LayoutWithout(windows, req[r].a1.val)]_vars

\* C1 witness: tab 3, listed at window 1 / tab 2 in the initial state, was
\* closed by id; the tab that now sits at window 1 / tab 2 is still there.
C1_Witness ==
  /\ out.name = "close_tab_by_id"
  /\ out.closed = {3}
  /\ Len(windows) >= 1
  /\ Len(windows[1].tabs) >= 2

\* C2: close_tab_by_id / activate_tab_by_id for an id no open tab has ends in
\* a failure result and leaves the browser as it was.
C2_UnknownIdFailsUnchanged ==
  [][\A r \in Reqs :
       (/\ pc[r] = "running"
        /\ req[r].name \in ByIdNames
        /\ ~(req[r].a1.kind = "int" /\ req[r].a1.val \in AllTabs(windows))
        /\ pc'[r] # "running")
       => /\ pc'[r] = "idle"
          /\ out'.kind = "result"
          /\ out'.isError
          /\ windows' = windows]_vars

\* C2 witness: an activation of a tab that is no longer open was refused.
C2_Witness ==
  /\ out.name = "activate_tab_by_id"
  /\ out.isError
  /\ out.detail = "not found"
  /\ out.a1 = IntArg(3)

\* C3: a request whose tabId / windowIndex / tabIndex is no positive integer
\* ends in a failure result without any osascript run.
C3_BadArgumentNoBridge ==
  (/\ out.kind # "none"
   /\ out.name \in ToolNames \ {"get_tabs"}
   /\ \/ ~PositiveInt(out.a1)
      \/ out.name = "close_tab" /\ ~PositiveInt(out.a2))
  => (out.isError /\ out.calls = 0)

\* C4: close_tab at a position (positive integers) that holds no tab when
\* the script runs ends in a failure result, never in the confirmation.
C4_MissingPositionFails ==
  (/\ out.kind = "result"
   /\ out.name = "close_tab"
   /\ PositiveInt(out.a1)
   /\ PositiveInt(out.a2)
   /\ out.closed = {})
  => out.isError

\* In a listing, tab t is in a window whose only active tab is t.
ShownActive(snap, t) ==
  \E w \in 1..Len(snap) :
    /\ \E i \in 1..Len(snap[w].tabs) : snap[w].tabs[i].id = t
    /\ \A i \in 1..Len(snap[w].tabs) :
         snap[w].tabs[i].isActive <=> (snap[w].tabs[i].id = t)

\* C5: after a successful activate_tab_by_id(t) (nothing else touching the
\* browser during it), a get_tabs listing of the browser as it then is shows
\* exactly one active tab in t's window, and that tab is t.
C5_SingleActiveTab ==
  (/\ out.kind = "result"
   /\ out.name = "activate_tab_by_id"
   /\ ~out.isError
   /\ out.clean)
  => ShownActive(getChromeTabsWithIds(windows), out.a1.val)

\* C5 witness: an undisturbed activation succeeded in a window of several tabs
\* whose active tab is not its first tab.
C5_Witness ==
  /\ out.name = "activate_tab_by_id"
  /\ ~out.isError
  /\ out.clean
  /\ \E w \in 1..Len(windows) :
       /\ out.a1.val \in SeqToSet(windows[w].tabs)
       /\ Len(windows[w].tabs) >= 2
       /\ windows[w].active >= 2

C7_SingleFlight == Cardinality({r \in Reqs : pc[r] # "idle"}) <= 1

SuccessTexts ==
  {"Found open tabs in Chrome", "Successfully closed tab with ID",
   "Successfully activated tab with ID", "LEGACY: Successfully closed tab at window"}

FailureTexts ==
  {FailureText(n) : n \in ToolNames} \cup {"Unknown tool", "TypeError"}

\* C8: whatever the tool name, the arguments and the bridge's outcome, the
\* handler returns a success payload or a failure result (isError, with a
\* message) and throws nothing; an unknown tool name is refused without any
\* osascript run; a request in flight is always at a step of a tool's branch.
C8_AlwaysAnEnvelope ==
  /\ out.kind \in {"none", "result"}
  /\ out.kind = "result" =>
       \/ out.isError /\ out.text \in FailureTexts
       \/ ~out.isError /\ out.text \in SuccessTexts
  /\ (out.kind # "none" /\ out.name \notin ToolNames) =>
       (out.kind = "result" /\ out.isError /\ out.text = "Unknown tool" /\ out.calls = 0)
  /\ \A r \in Reqs :
       /\ pc[r] = "running" => (req[r].name \in ToolNames /\ bridgeCalls[r] = 1)
       /\ pc[r] = "front" => (req[r].name = "activate_tab_by_id" /\ bridgeCalls[r] = 1)

\* C8 witness: an unknown tool was refused with a failure result.
C8_Witness ==
  /\ out.name = "no_such_tool"
  /\ out.kind = "result"
  /\ out.isError
  /\ out.calls = 0

NonBlankLines(text) == NonBlank(split(trim(text), NL))

HasShortLine(text) ==
  \E k \in 1..Len(NonBlankLines(text)) :
    Len(split(NonBlankLines(text)[k], Delim)) < NumFields

\* C9: when a non-blank line of the enumerate output has fewer than 7
\* fields, get_tabs ends in a failure.
C9_ShortRecordRejected ==
  (out.kind = "result" /\ out.name = "get_tabs" /\ HasShortLine(rawOut)) => out.isError

\* What a script leaves: its result, or the browser as it was when it raised.
Outcome(after, wins) == IF after = {} THEN {wins} ELSE after

\* The activate-by-id script run through, undisturbed.
ActivateOutcome(wins, a) ==
  LET t == FindTab(wins, ArgText(a))
  IN UNION {Outcome(SetIndexScript(s1, wins[WindowOf(wins, t)].id), s1) :
              s1 \in SetActiveScript(wins, a)}

ByIdIdempotent ==
  \A a \in TabIdArgs :
    /\ \A s1 \in Outcome(CloseByIdScript(windows, a), windows) :
         Outcome(CloseByIdScript(s1, a), s1) = {s1}
    /\ \A s1 \in Outcome(ActivateOutcome(windows, a), windows) :
         Outcome(ActivateOutcome(s1, a), s1) = {s1}

\* C10 as stated: from every browser state, each mutation request issued
\* twice in a row leaves the browser as issuing it once does, close_tab(w, i)
\* included.
C10_AllIdempotent ==
  /\ ByIdIdempotent
  /\ \A wa \in IdxArgs, ta \in IdxArgs :
       \A s1 \in CloseByIndexScript(windows, wa, ta) :
         CloseByIndexScript(s1, wa, ta) = {s1}

\* C10 amended: close_tab_by_id(id) and activate_tab_by_id(id) issued twice in
\* a row leave the browser as issuing them once does (the second close finds
\* nothing, the second activation changes nothing); close_tab(w, i) does not:
\* its second run closes the tab that moved into position (w, i).
C10_ByIdIdempotent ==
  /\ ByIdIdempotent
  /\ \A wa \in IdxArgs, ta \in IdxArgs :
       \A s1 \in CloseByIndexScript(windows, wa, ta) :
         (s1 # windows /\ CloseByIndexHits(s1, wa, ta)) =>
           \A s2 \in CloseByIndexScript(s1, wa, ta) : AllTabs(s2) # AllTabs(s1)

\* C10 witness: a second close_tab_by_id for a tab that had been open found
\* nothing to close.
C10_Witness ==
  /\ out.name = "close_tab_by_id"
  /\ out.isError
  /\ out.detail = "not found"
  /\ out.a1 = IntArg(2)
  /\ out.closed = {}

\* Every tab record of a listing, window after window.
SnapTabs(snap) == Concat([w \in 1..Len(snap) |-> snap[w].tabs])

\* C11: for every tab t of a listing get_tabs returns, the position
\* (t.windowIndex, t.tabIndex) holds, in the browser the listing was taken
\* from, the tab whose id is t.id; close_tab at that position and
\* close_tab_by_id(t.id) leave the same browser states.
C11_PositionsAddressListedTab ==
  (out.kind = "result" /\ out.name = "get_tabs" /\ ~out.isError) =>
    \A k \in 1..Len(SnapTabs(out.snap)) :
      LET t == SnapTabs(out.snap)[k]
      IN /\ t.windowIndex \in 1..Len(windows)
         /\ t.tabIndex \in 1..Len(windows[t.windowIndex].tabs)
         /\ windows[t.windowIndex].tabs[t.tabIndex] = t.id
         /\ CloseByIndexScript(windows, IntArg(t.windowIndex), IntArg(t.tabIndex))
              = CloseByIdScript(windows, IntArg(t.id))
         /\ \A s1 \in CloseByIndexScript(windows, IntArg(t.windowIndex),
                                          IntArg(t.tabIndex)) :
              AllTabs(windows) \ AllTabs(s1) = {t.id}

\* C11 witness: a listing of two windows was returned in which tab 2 is
\* reported in the second window.
C11_Witness ==
  /\ out.name = "get_tabs"
  /\ ~out.isError
  /\ Len(out.snap) = 2
  /\ \E k \in 1..Len(SnapTabs(out.snap)) :
       SnapTabs(out.snap)[k].id = 2 /\ SnapTabs(out.snap)[k].windowIndex = 2

\* C12: in every listing get_tabs returns, whatever was closed, activated or
\* changed before, no two tabs have the same id, the windows' positional
\* indices are exactly 1..N, and the tabs of each window carry the positions
\* 1..M in the order they are listed.
C12_UniqueAndDense ==
  (out.kind = "result" /\ out.name = "get_tabs" /\ ~out.isError) =>
    /\ \A j, k \in 1..Len(SnapTabs(out.snap)) :
         j # k => SnapTabs(out.snap)[j].id # SnapTabs(out.snap)[k].id
    /\ {out.snap[w].windowIndex : w \in 1..Len(out.snap)} = 1..Len(out.snap)
    /\ \A w \in 1..Len(out.snap) : \A i \in 1..Len(out.snap[w].tabs) :
         out.snap[w].tabs[i].tabIndex = i

\* C12 witness: a listing of one window with three tabs, the newest tab
\* first and tab 2 no longer first, was returned.
C12_Witness ==
  /\ out.name = "get_tabs"
  /\ ~out.isError
  /\ Len(out.snap) = 1
  /\ Len(out.snap[1].tabs) = 3
  /\ out.snap[1].tabs[1].id = 4
  /\ out.snap[1].tabs[3].id = 2

\* The members of a set of numbers, largest first.
RECURSIVE Descending(_)
Descending(P) ==
  IF P = {} THEN <<>>
  ELSE LET m == CHOOSE x \in P : \A y \in P : y <= x
       IN <<m>> \o Descending(P \ {m})

\* close_tab(w, p) for each p of ps in turn, nothing else touching the
\* browser: the browser states that may result from the states S.
RECURSIVE CloseInOrder(_, _, _)
CloseInOrder(S, w, ps) ==
  IF ps = <<>> THEN S
  ELSE CloseInOrder(UNION {CloseByIndexScript(s1, IntArg(w), IntArg(Head(ps))) : s1 \in S},
                    w, Tail(ps))

\* C13: take any window of a listing and any set of two or more of its tab
\* positions; close_tab at those positions, highest first, with nothing else
\* changing the browser, closes exactly the tabs the listing shows there.
C13_DescendingClosesListed ==
  (out.kind = "result" /\ out.name = "get_tabs" /\ ~out.isError) =>
    \A k \in 1..Len(out.snap) :
      LET lw == out.snap[k]
      IN \A P \in SUBSET {lw.tabs[i].tabIndex : i \in 1..Len(lw.tabs)} :
           Cardinality(P) >= 2 =>
             \A s2 \in CloseInOrder({windows}, lw.windowIndex, Descending(P)) :
               /\ AllTabs(s2) \subseteq AllTabs(windows)
               /\ AllTabs(windows) \ AllTabs(s2) =
                    {lw.tabs[i].id : i \in {j \in 1..Len(lw.tabs) : lw.tabs[j].tabIndex \in P}}
               /\ LayoutWithout(s2, 0) =
                    [w \in 1..Len(LayoutWithout(s2, 0)) |->
                       [id |-> LayoutWithout(s2, 0)[w].id,
                        tabs |-> SelectSeq(
                          windows[CHOOSE v \in 1..Len(windows) :
                                    windows[v].id = LayoutWithout(s2, 0)[w].id].tabs,
                          LAMBDA x : x \in AllTabs(s2))]]

\* C13 witness: a listing was returned of a window with three tabs whose
\* middle tab is the active one, so that closing positions 3, 2, 1 (or any
\* two of them) highest first applies, the active tab being closed on the way.
C13_Witness ==
  /\ out.name = "get_tabs"
  /\ ~out.isError
  /\ Len(out.snap) = 1
  /\ Len(out.snap[1].tabs) = 3
  /\ out.snap[1].tabs[2].isActive
  /\ Len(windows[1].tabs) = 3

\* C14: a get_tabs request, from its dispatch to its result (a listing or
\* a failure), leaves the browser as it is: the same windows in the same
\* order, the same tabs in the same order, the same active tabs.
C14_GetTabsLeavesBrowser ==
  [][\A r \in Reqs :
       (\/ pc[r] = "idle" /\ pc'[r] = "running" /\ req'[r].name = "get_tabs"
        \/ pc[r] = "running" /\ req[r].name = "get_tabs" /\ pc'[r] # "running"
        \/ out'.kind # "none" /\ out'.name = "get_tabs")
       => windows' = windows /\ nextId' = nextId]_vars

\* C14 witness: a get_tabs request failed at the bridge while two windows
\* were open.
C14_Witness ==
  /\ out.name = "get_tabs"
  /\ out.isError
  /\ out.detail = "bridge"
  /\ Len(windows) = 2

\* The browser described as a listing: what is open, where, what is active.
BrowserAsListing(wins) ==
  [w \in 1..Len(wins) |->
     [windowId |-> wins[w].id, windowIndex |-> w,
      tabs |-> [i \in 1..Len(wins[w].tabs) |->
                  [id |-> wins[w].tabs[i], windowId |-> wins[w].id,
                   title |-> TitleOf(wins[w].tabs[i]), url |-> UrlOf(wins[w].tabs[i]),
                   isActive |-> (i = wins[w].active),
                   windowIndex |-> w, tabIndex |-> i]]]]

IsOpen(a, wins) == a.kind = "int" /\ a.val \in AllTabs(wins)

\* A result o as the request it answers and the browser before (wins) and
\* after (after) its script determine it, with no reference to anything an
\* earlier request left behind.
DeterminedByBrowser(o, wins, after) ==
  IF o.calls = 0
  THEN o.isError /\ after = wins
       /\ o.text = (IF o.name \in ToolNames THEN "TypeError" ELSE "Unknown tool")
  ELSE IF o.detail = "bridge" THEN o.isError /\ after = wins
  ELSE IF o.name = "get_tabs"
    THEN ~o.isError /\ o.snap = BrowserAsListing(wins) /\ after = wins
  ELSE IF o.name = "close_tab_by_id"
    THEN IF IsOpen(o.a1, wins)
         THEN ~o.isError /\ AllTabs(after) = AllTabs(wins) \ {o.a1.val}
         ELSE o.isError /\ after = wins
  ELSE IF o.name = "close_tab"
    THEN /\ ~o.isError
         /\ IF /\ o.a1.kind = "int" /\ o.a1.val \in 1..Len(wins)
               /\ o.a2.kind = "int" /\ o.a2.val \in 1..Len(wins[o.a1.val].tabs)
            THEN AllTabs(after) = AllTabs(wins) \ {wins[o.a1.val].tabs[o.a2.val]}
            ELSE after = wins
  ELSE IF o.detail = "not found" THEN o.isError /\ ~IsOpen(o.a1, wins) /\ after = wins
  ELSE IF o.isError THEN after = wins
  ELSE Len(after) >= 1 /\ AllTabs(after) = AllTabs(wins)

\* C15: the result of every request is determined by its arguments and the
\* browser at the step that produces it; a get_tabs result is the listing of
\* the browser as it is at that step, whatever was handled before.
C15_NoCrossRequestState ==
  [][out'.kind # "none" => DeterminedByBrowser(out', windows, windows')]_vars

\* C15 witness: after tab 2 was closed and tab 4 opened, a get_tabs result
\* lists the browser as it now is.
C15_Witness ==
  /\ out.name = "get_tabs"
  /\ ~out.isError
  /\ 2 \notin AllTabs(windows)
  /\ 4 \in AllTabs(windows)
  /\ out.snap = BrowserAsListing(windows)

Holds(wins, wa, ta) ==
  /\ wa.kind = "int" /\ wa.val \in 1..Len(wins)
  /\ ta.kind = "int" /\ ta.val \in 1..Len(wins[wa.val].tabs)

\* C17: close_tab(w, i) removes the tab at position i of window w as the
\* browser is when its script runs, and nothing else; it does not adjust
\* for earlier closes, so when the window has a tab at position i + 1 a
\* second close_tab(w, i) right after removes that one: the two together
\* remove the tabs that were at positions i and i + 1.
C17_NoShiftCompensation ==
  [][\A r \in Reqs :
       (/\ pc[r] = "running"
        /\ req[r].name = "close_tab"
        /\ pc'[r] = "idle"
        /\ out'.detail # "bridge")
       => LET wa == req[r].a1
              ta == req[r].a2
          IN IF Holds(windows, wa, ta)
             THEN LET tabs == windows[wa.val].tabs
                  IN /\ out'.closed = {tabs[ta.val]}
                     /\ LayoutWithout(windows', 0) = LayoutWithout(windows, tabs[ta.val])
                     /\ Len(tabs) > ta.val =>
                          \A s2 \in CloseByIndexScript(windows', wa, ta) :
                            AllTabs(windows) \ AllTabs(s2) = {tabs[ta.val], tabs[ta.val + 1]}
             ELSE windows' = windows /\ out'.closed = {}]_vars

\* C17 witness: a close_tab(1, 1) closed tab 3, which had come to position
\* 1 once tab 2 was gone, and tab 4 has moved into position 1 in its turn.
C17_Witness ==
  /\ out.name = "close_tab"
  /\ out.a1 = IntArg(1)
  /\ out.a2 = IntArg(1)
  /\ out.closed = {3}
  /\ Len(windows) = 1
  /\ windows[1].tabs = <<4>>

\* C18: a request spawns osascript at most once: none is spawned while it
\* is in flight, a failed run ends the request at once in a failure result
\* that reports that one run and leaves the browser as it was, and no
\* request's closing step removes more than one tab.
C18_NoRetry ==
  [][\A r \in Reqs :
       /\ bridgeCalls'[r] <= 1
       /\ pc[r] # "idle" => bridgeCalls'[r] <= bridgeCalls[r]
       /\ (pc[r] # "idle" /\ pc'[r] = pc[r]) => (out'.kind = "none" /\ req'[r] = req[r])
       /\ (pc[r] # "idle" /\ pc'[r] = "idle") =>
            /\ out'.kind = "result"
            /\ out'.calls = 1
            /\ Cardinality(out'.closed) <= 1
            /\ out'.isError => windows' = windows]_vars

\* C18 witness: a close_tab_by_id whose osascript run failed ended in a
\* failure result after that single run, its target still open.
C18_Witness ==
  /\ out.name = "close_tab_by_id"
  /\ out.isError
  /\ out.detail = "bridge"
  /\ out.calls = 1
  /\ out.a1.val \in AllTabs(windows)

\* The lines of a text that are not empty, in order.
RawRecords(text) == SelectSeq(split(text, NL), LAMBDA l : l # <<>>)

IsNumeral(s) == s # <<>> /\ \A i \in 1..Len(s) : IsDigit(s[i])

\* A line with all seven fields, the four numeric ones written as integers.
WellFormedLine(l) ==
  LET fs == split(l, Delim)
  IN /\ Len(fs) = NumFields
     /\ \A k \in 1..4 : IsNumeral(fs[k])
     /\ fs[5] \in {RenderBool(TRUE), RenderBool(FALSE)}

\* C19: when every non-empty line of the output is a well-formed record,
\* the listing has one window per distinct window id, in the order the ids
\* first appear; each window holds the records of its id in line order;
\* empty lines add nothing; the tabs are as many as the non-empty lines.
C19_GroupingKeepsOrder ==
  (/\ out.kind = "result"
   /\ out.name = "get_tabs"
   /\ \A k \in 1..Len(RawRecords(rawOut)) : WellFormedLine(RawRecords(rawOut)[k]))
  => LET recs == [k \in 1..Len(RawRecords(rawOut)) |-> ParseLine(RawRecords(rawOut)[k])]
         FirstSeen(id) == CHOOSE k \in 1..Len(recs) :
                            /\ recs[k].windowId = id
                            /\ \A j \in 1..(k - 1) : recs[j].windowId # id
         snap == out.snap
     IN /\ ~out.isError
        /\ {snap[a].windowId : a \in 1..Len(snap)} = {recs[k].windowId : k \in 1..Len(recs)}
        /\ \A a, b \in 1..Len(snap) :
             a < b => /\ snap[a].windowId # snap[b].windowId
                      /\ FirstSeen(snap[a].windowId) < FirstSeen(snap[b].windowId)
        /\ \A a \in 1..Len(snap) :
             LET mine == SelectSeq(recs, LAMBDA rc : rc.windowId = snap[a].windowId)
             IN /\ Len(snap[a].tabs) = Len(mine)
                /\ \A i \in 1..Len(mine) :
                     /\ snap[a].tabs[i].id = mine[i].tabId
                     /\ snap[a].tabs[i].tabIndex = mine[i].tabIndex
                     /\ snap[a].tabs[i].isActive = mine[i].isActive
                     /\ snap[a].tabs[i].title = mine[i].title
                     /\ snap[a].tabs[i].url = mine[i].url
        /\ Len(SnapTabs(snap)) = Len(RawRecords(rawOut))

\* C19 witness: three well-formed records, of windows 2, 1 and 2 again, gave
\* a listing with window 2 first, holding tabs 5 and 6 in that order.
C19_Witness ==
  /\ out.name = "get_tabs"
  /\ Len(RawRecords(rawOut)) = 3
  /\ \A k \in 1..3 : WellFormedLine(RawRecords(rawOut)[k])
  /\ Len(out.snap) = 2
  /\ out.snap[1].windowId = 2
  /\ out.snap[2].windowId = 1
  /\ Len(out.snap[1].tabs) = 2
  /\ out.snap[1].tabs[1].id = 5
  /\ out.snap[1].tabs[2].id = 6

\* Some non-blank line has all seven fields, and one of its four numeric
\* fields is not written as an integer.
HasNonIntegerField(text) ==
  \E k \in 1..Len(NonBlankLines(text)) :
    LET fs == split(NonBlankLines(text)[k], Delim)
    IN Len(fs) = NumFields /\ \E f \in 1..4 : ~IsNumeral(fs[f])

\* C20: when a numeric field of a non-blank line is not an integer, get_tabs
\* ends in a failure; no listing carries a NaN id or index.  (Stated for
\* lines that have all their fields: lines cut short are C9's case.)
C20_NumericFieldsFailClosed ==
  (out.kind = "result" /\ out.name = "get_tabs" /\ ~HasShortLine(rawOut)) =>
    /\ HasNonIntegerField(rawOut) => out.isError
    /\ \A w \in 1..Len(out.snap) :
         /\ out.snap[w].windowId # NaN
         /\ out.snap[w].windowIndex # NaN
         /\ \A i \in 1..Len(out.snap[w].tabs) :
              /\ out.snap[w].tabs[i].id # NaN
              /\ out.snap[w].tabs[i].tabIndex # NaN

\* The window (by id) and the position in it at which tab t sits.
PlaceOf(wins, t) ==
  [wid |-> wins[WindowOf(wins, t)].id,
   idx |-> IndexIn(wins[WindowOf(wins, t)].tabs, t)]

\* The active tab of the window with the given id.
ActiveOf(wins, wid) ==
  ActiveTab(wins[CHOOSE w \in 1..Len(wins) : wins[w].id = wid])

\* C21: the steps of an activate_tab_by_id(t) that succeeds open no tab,
\* close no tab and leave every tab in its window at its position, so every
\* tab id addresses the same tab as before.  Setting the active tab changes
\* nothing but the active tab of t's window (the window order included);
\* raising the window changes nothing but the window order: the raised
\* window comes first, the others keep their relative order.
C21_ActivationFrame ==
  [][\A r \in Reqs :
       (/\ req[r].name = "activate_tab_by_id"
        /\ \/ pc[r] = "running" /\ pc'[r] = "front"
           \/ pc[r] = "front" /\ pc'[r] = "idle" /\ ~out'.isError)
       => /\ AllTabs(windows') = AllTabs(windows)
          /\ WindowIds(windows') = WindowIds(windows)
          /\ Len(windows') = Len(windows)
          /\ nextId' = nextId
          /\ \A t \in AllTabs(windows) : PlaceOf(windows', t) = PlaceOf(windows, t)
          /\ IF pc[r] = "running"
             THEN /\ \A w \in 1..Len(windows) :
                       /\ windows'[w].id = windows[w].id
                       /\ w # WindowOf(windows, req[r].a1.val)
                            => windows'[w].active = windows[w].active
                  /\ ActiveOf(windows', PlaceOf(windows, req[r].a1.val).wid)
                       = req[r].a1.val
             ELSE /\ \A wid \in WindowIds(windows) :
                       ActiveOf(windows', wid) = ActiveOf(windows, wid)
                  /\ windows'[1].id = scriptW[r].wid
                  /\ Tail(windows') =
                       SelectSeq(windows, LAMBDA win : win.id # scriptW[r].wid)]_vars

\* C21 witness: an undisturbed activation succeeded with two windows open
\* and left the older window in front of the newer one: the window indices
\* of a listing taken when the newer window was opened no longer hold.
C21_Witness ==
  /\ out.name = "activate_tab_by_id"
  /\ ~out.isError
  /\ out.clean
  /\ Len(windows) = 2
  /\ windows[1].id < windows[2].id
  /\ out.a1.val \in SeqToSet(windows[1].tabs)

====
